---- MODULE Spec2Model ----
(***************************************************************************)
(* Panchanga engine (src/panchanga_engine.py): the phase-event detector    *)
(* _collect_phase_events and the helpers it calls, as a state machine.     *)
(*                                                                         *)
(* Numbers.  Angles are integers counted in thirds of a degree, so that    *)
(* both period widths of the program, 12 degrees and 360/27 degrees, are   *)
(* whole numbers.  Times (Julian days) are exact fractions <<n, d>> in     *)
(* lowest terms with d > 0; the sample times themselves are whole ticks.   *)
(* The model therefore computes over the rationals what the program        *)
(* computes in binary floating point: rounding error is not modelled.      *)
(***************************************************************************)
EXTENDS Integers, Sequences, FiniteSets, TLC

VARIABLES
    samples,         \* argument: sequence of [jd, sun, moon]
    initial_index,   \* argument
    step_deg,        \* argument
    max_index,       \* argument
    phase_mode,      \* argument
    pc,              \* position in _collect_phase_events
    k,               \* position of the for loop in samples (next sample to read)
    prev_jd,         \* local
    prev_phase,      \* local
    tracking_index,  \* local
    jd,              \* local (loop variable)
    curr_phase,      \* local
    events,          \* local, the returned list
    phase_series,    \* history: the unwrapped phase of every sample read so far
    index_series,    \* history: tracking_index when each sample was reached
    event_gap,       \* history: for every event, the sample position k of its gap
    call_no,         \* which call of the function this is (1, 2, 3)
    saved,           \* history: arguments and result of the first call
    karana_call,     \* the frame of collect_karana_events_from_tithis
    new_moon_call,   \* the frame of _find_new_moon_jd
    masa_call,       \* the frame of _compute_masa
    panchanga_call,  \* the frame of compute_panchanga
    dasha_call,      \* the frame of calculate_vimshottari
    ingress_call     \* the frame of find_zodiac_ingresses

args == <<samples, initial_index, step_deg, max_index, phase_mode>>
locals == <<pc, k, prev_jd, prev_phase, tracking_index, jd, curr_phase, events>>
history == <<phase_series, index_series, event_gap>>
calls == <<call_no, saved>>
logic == <<dasha_call, ingress_call>>
frames == <<karana_call, new_moon_call, masa_call, panchanga_call, logic>>
vars == <<args, locals, history, calls, frames>>

\* the frame of a function that is not being called
Idle == [pc |-> "idle"]

\* the functions of the logic package are not being called
LogicIdle ==
    /\ dasha_call = Idle
    /\ ingress_call = Idle

----------------------------------------------------------------------------
(* Bounds of the model *)

MaxSamples == 3

MaxLinearSamples == 5

MaxLongSamples == 6

MaxNoisySamples == 4

----------------------------------------------------------------------------
(* Angles *)

Deg(d) == 3 * d

FULL == Deg(360)

HALF == Deg(180)

Abs(x) == IF x < 0 THEN -x ELSE x

----------------------------------------------------------------------------
(* Exact fractions, for the float arithmetic on Julian days *)

RECURSIVE GCD(_, _)
GCD(a, b) == IF b = 0 THEN a ELSE GCD(b, a % b)

Frac(n, d) ==
    LET g == GCD(Abs(n), Abs(d))
        s == IF d < 0 THEN -1 ELSE 1
    IN  <<(s * n) \div g, (s * d) \div g>>

Whole(n) == <<n, 1>>

FracAdd(x, y) == Frac(x[1] * y[2] + y[1] * x[2], x[2] * y[2])

FracSub(x, y) == Frac(x[1] * y[2] - y[1] * x[2], x[2] * y[2])

FracMul(x, y) == Frac(x[1] * y[1], x[2] * y[2])

FracLeq(x, y) == x[1] * y[2] <= y[1] * x[2]

----------------------------------------------------------------------------
(* Pure helpers of the program *)

\* get_phase: the phase of one sample under a phase mode
get_phase(mode, s, m) ==
    IF mode = "tithi" THEN (m - s) % FULL
    ELSE IF mode = "yoga" THEN (m + s) % FULL
    ELSE m % FULL

\* _unwrap_phase
_unwrap_phase(prev, curr) ==
    LET delta == curr - prev
    IN  IF delta < -HALF THEN curr + FULL
        ELSE IF delta > HALF THEN curr - FULL
        ELSE curr

\* the (step_deg, max_index, phase_mode) each domain wrapper passes
collect_tithi_events == [step |-> Deg(12), max |-> 30, mode |-> "tithi"]

collect_yoga_events == [step |-> FULL \div 27, max |-> 27, mode |-> "yoga"]

collect_nakshatra_events == [step |-> FULL \div 27, max |-> 27, mode |-> "nakshatra"]

Wrappers == {collect_tithi_events, collect_yoga_events, collect_nakshatra_events}

\* the period index of a phase, as compute_panchanga computes it at sunrise
IndexOf(phase, step, max) == ((phase % FULL) \div step) % max

----------------------------------------------------------------------------
(* _collect_phase_events, one action per step of its control flow *)

NoTime == Whole(0)

\* a slip: the boundary that starts the tracked period, not the one ending it
candidate_boundary_off_by_one(index, step, prev) ==
    LET target_absolute == index * step
        diff == target_absolute - (prev % FULL)
    IN  IF diff <= 0 THEN prev + (diff + FULL) ELSE prev + diff

\* a slip: a boundary at or below prev_phase is not moved up by a turn
candidate_boundary_below(index, step, prev) ==
    LET target_absolute == (index + 1) * step
        diff == target_absolute - (prev % FULL)
    IN  prev + diff

\* lines 320-324: the next boundary above prev_phase for the tracked index
candidate_boundary(index, step, prev) ==
    LET target_absolute == (index + 1) * step
        diff == target_absolute - (prev % FULL)
    IN  IF diff <= 0 THEN prev + (diff + FULL) ELSE prev + diff

\* a slip: a boundary exactly at the sample is not taken
crosses_strict(cand, c_phase) == cand < c_phase

\* line 326: the boundary is reached within this gap
crosses(cand, c_phase) == cand <= c_phase

\* a slip: the index wraps one period early
next_index_wraps_early(index, max) == (index + 1) % (max - 1)

\* line 331: the index after a crossing
next_index(index, max) == (index + 1) % max

\* a slip: the ratio is inverted
interpolate_swapped(cand, p_phase, c_phase, p_jd, c_jd) ==
    LET ratio == Frac(c_phase - p_phase, cand - p_phase)
    IN  FracAdd(p_jd, FracMul(ratio, FracSub(c_jd, p_jd)))

\* a slip: the ratio is measured from the gap's second sample
interpolate_from_end(cand, p_phase, c_phase, p_jd, c_jd) ==
    LET ratio == Frac(cand - p_phase, c_phase - p_phase)
    IN  FracSub(c_jd, FracMul(ratio, FracSub(c_jd, p_jd)))

\* lines 327-328: the interpolated crossing time
interpolate(cand, p_phase, c_phase, p_jd, c_jd) ==
    LET ratio == Frac(cand - p_phase, c_phase - p_phase)
    IN  FracAdd(p_jd, FracMul(ratio, FracSub(c_jd, p_jd)))

\* a slip: the loop starts at the first sample, against a phase of zero
EntryFromZero ==
    /\ pc = "entry"
    /\ events' = <<>>
    /\ event_gap' = <<>>
    /\ jd' = NoTime
    /\ curr_phase' = 0
    /\ IF samples = <<>>
       THEN /\ pc' = "return"
            /\ k' = 0
            /\ prev_jd' = NoTime
            /\ prev_phase' = 0
            /\ tracking_index' = 0
            /\ phase_series' = <<>>
            /\ index_series' = <<>>
       ELSE /\ pc' = "for"
            /\ k' = 1
            /\ prev_jd' = Whole(samples[1].jd)
            /\ prev_phase' = 0
            /\ tracking_index' = initial_index
            /\ phase_series' = <<>>
            /\ index_series' = <<>>
    /\ UNCHANGED <<args, calls, frames>>

\* a slip: the event list outlives the call (a shared default list)
EntryKeepsEvents ==
    /\ pc = "entry"
    /\ events' = events
    /\ event_gap' = event_gap
    /\ jd' = NoTime
    /\ curr_phase' = 0
    /\ IF samples = <<>>
       THEN /\ pc' = "return"
            /\ k' = 0
            /\ prev_jd' = NoTime
            /\ prev_phase' = 0
            /\ tracking_index' = 0
            /\ phase_series' = <<>>
            /\ index_series' = <<>>
       ELSE /\ pc' = "for"
            /\ k' = 2
            /\ prev_jd' = Whole(samples[1].jd)
            /\ prev_phase' = get_phase(phase_mode, samples[1].sun, samples[1].moon)
            /\ tracking_index' = initial_index
            /\ phase_series' = <<get_phase(phase_mode, samples[1].sun, samples[1].moon)>>
            /\ index_series' = <<initial_index>>
    /\ UNCHANGED <<args, calls, frames>>

\* lines 292-309: the empty-input return, or the set-up before the loop
Entry ==
    /\ pc = "entry"
    /\ events' = <<>>
    /\ event_gap' = <<>>
    /\ jd' = NoTime
    /\ curr_phase' = 0
    /\ IF samples = <<>>
       THEN /\ pc' = "return"
            /\ k' = 0
            /\ prev_jd' = NoTime
            /\ prev_phase' = 0
            /\ tracking_index' = 0
            /\ phase_series' = <<>>
            /\ index_series' = <<>>
       ELSE /\ pc' = "for"
            /\ k' = 2
            /\ prev_jd' = Whole(samples[1].jd)
            /\ prev_phase' = get_phase(phase_mode, samples[1].sun, samples[1].moon)
            /\ tracking_index' = initial_index
            /\ phase_series' = <<get_phase(phase_mode, samples[1].sun, samples[1].moon)>>
            /\ index_series' = <<initial_index>>
    /\ UNCHANGED <<args, calls, frames>>

\* lines 311-317: read the next sample, unwrap its phase, skip an unchanged phase
ForNext ==
    /\ pc = "for"
    /\ k <= Len(samples)
    /\ LET raw_phase == get_phase(phase_mode, samples[k].sun, samples[k].moon)
           curr == _unwrap_phase(prev_phase, raw_phase)
       IN  /\ jd' = Whole(samples[k].jd)
           /\ curr_phase' = curr
           /\ phase_series' = Append(phase_series, curr)
           /\ IF curr = prev_phase
              THEN /\ prev_jd' = Whole(samples[k].jd)
                   /\ prev_phase' = curr
                   /\ k' = k + 1
                   /\ pc' = "for"
                   /\ index_series' = Append(index_series, tracking_index)
              ELSE /\ pc' = "while"
                   /\ UNCHANGED <<prev_jd, prev_phase, k, index_series>>
    /\ UNCHANGED <<args, calls, frames, tracking_index, events, event_gap>>

\* a slip: the crossing is recorded but prev_phase and prev_jd stay at the
\* gap's first sample
CrossKeepsPrevPhase ==
    /\ pc = "while"
    /\ LET cand == candidate_boundary(tracking_index, step_deg, prev_phase)
           jd_cross == interpolate(cand, prev_phase, curr_phase, prev_jd, jd)
       IN  /\ crosses(cand, curr_phase)
           /\ events' = Append(events, <<tracking_index, jd_cross, cand % FULL>>)
           /\ tracking_index' = next_index(tracking_index, max_index)
    /\ event_gap' = Append(event_gap, k)
    /\ UNCHANGED <<args, calls, frames, pc, k, jd, curr_phase, phase_series, index_series,
                   prev_phase, prev_jd>>

\* a slip: prev_jd is not moved to the crossing while prev_phase is
CrossKeepsPrevJd ==
    /\ pc = "while"
    /\ LET cand == candidate_boundary(tracking_index, step_deg, prev_phase)
           jd_cross == interpolate(cand, prev_phase, curr_phase, prev_jd, jd)
       IN  /\ crosses(cand, curr_phase)
           /\ events' = Append(events, <<tracking_index, jd_cross, cand % FULL>>)
           /\ tracking_index' = next_index(tracking_index, max_index)
           /\ prev_phase' = cand
           /\ prev_jd' = prev_jd
    /\ event_gap' = Append(event_gap, k)
    /\ UNCHANGED <<args, calls, frames, pc, k, jd, curr_phase, phase_series, index_series>>

\* lines 319-334: one boundary lies at or below curr_phase: emit its event
Cross ==
    /\ pc = "while"
    /\ LET cand == candidate_boundary(tracking_index, step_deg, prev_phase)
           jd_cross == interpolate(cand, prev_phase, curr_phase, prev_jd, jd)
       IN  /\ crosses(cand, curr_phase)
           /\ events' = Append(events, <<tracking_index, jd_cross, cand % FULL>>)
           /\ tracking_index' = next_index(tracking_index, max_index)
           /\ prev_phase' = cand
           /\ prev_jd' = jd_cross
    /\ event_gap' = Append(event_gap, k)
    /\ UNCHANGED <<args, calls, frames, pc, k, jd, curr_phase, phase_series, index_series>>

\* a slip: line 338 is missing, prev_jd stays where the last gap left it
BreakKeepsPrevJd ==
    /\ pc = "while"
    /\ ~crosses(candidate_boundary(tracking_index, step_deg, prev_phase), curr_phase)
    /\ prev_phase' = curr_phase
    /\ k' = k + 1
    /\ pc' = "for"
    /\ index_series' = Append(index_series, tracking_index)
    /\ UNCHANGED <<args, calls, frames, prev_jd, tracking_index, jd, curr_phase, events,
                   phase_series, event_gap>>

\* a slip: on leaving the while loop the index is set to the period of
\* curr_phase
BreakResyncsIndex ==
    /\ pc = "while"
    /\ ~crosses(candidate_boundary(tracking_index, step_deg, prev_phase), curr_phase)
    /\ prev_jd' = jd
    /\ prev_phase' = curr_phase
    /\ k' = k + 1
    /\ pc' = "for"
    /\ tracking_index' = IndexOf(curr_phase, step_deg, max_index)
    /\ index_series' = Append(index_series, IndexOf(curr_phase, step_deg, max_index))
    /\ UNCHANGED <<args, calls, frames, jd, curr_phase, events, phase_series, event_gap>>

\* lines 335-339: no further boundary in this gap: leave the while loop
Break ==
    /\ pc = "while"
    /\ ~crosses(candidate_boundary(tracking_index, step_deg, prev_phase), curr_phase)
    /\ prev_jd' = jd
    /\ prev_phase' = curr_phase
    /\ k' = k + 1
    /\ pc' = "for"
    /\ index_series' = Append(index_series, tracking_index)
    /\ UNCHANGED <<args, calls, frames, tracking_index, jd, curr_phase, events,
                   phase_series, event_gap>>

\* line 341: the samples are exhausted
ForExit ==
    /\ pc = "for"
    /\ k > Len(samples)
    /\ pc' = "return"
    /\ UNCHANGED <<args, calls, frames, k, prev_jd, prev_phase, tracking_index, jd,
                   curr_phase, events, history>>

Detect == Entry \/ ForNext \/ Cross \/ Break \/ ForExit

----------------------------------------------------------------------------
(* Inputs: sample series between two sunrises *)

\* Moon longitudes of the first sample
MoonGrid == {Deg(60) * i : i \in 0..5}

\* Sun longitudes of the first sample
SunGrid == {0, Deg(20)}

\* ticks between consecutive samples (0: two samples at the same instant)
DtSet == {0, 1}

\* the Sun's motion per tick
SunPerTick == Deg(1)

\* the Moon's motion between consecutive samples: backward (noise), none,
\* less than one period, a few periods, many periods but under 180 degrees,
\* and more than 180 degrees (too sparse a sampling)
MoonSteps == {Deg(-10), 0, Deg(10), Deg(30), Deg(100), Deg(200)}

NextSample(last, dt, inc) ==
    [jd |-> last.jd + dt,
     sun |-> (last.sun + dt * SunPerTick) % FULL,
     moon |-> (last.moon + inc) % FULL]

RECURSIVE Series(_, _, _)
Series(n, dts, incs) ==
    IF n = 0 THEN {<<>>}
    ELSE IF n = 1
    THEN {<<[jd |-> 0, sun |-> s, moon |-> m]>> : s \in SunGrid, m \in MoonGrid}
    ELSE {Append(q, NextSample(q[n - 1], dt, inc)) :
              q \in Series(n - 1, dts, incs), dt \in dts, inc \in incs}

SampleSeries == UNION {Series(n, DtSet, MoonSteps) : n \in 0..MaxSamples}

\* the initial indices tried: every index for a series without a gap, and
\* for a series with gaps the index of the first sample's phase (what
\* compute_panchanga passes) and the index after it (a stale argument)
InitialIndices(ss, w) ==
    IF Len(ss) <= 1 THEN 0..(w.max - 1)
    ELSE LET i0 == IndexOf(get_phase(w.mode, ss[1].sun, ss[1].moon), w.step, w.max)
         IN  {i0, (i0 + 1) % w.max}

\* what is remembered of the first call: its arguments, its result once it
\* has returned, and how many other calls were made since
FirstCall(ss, w, i) ==
    [samples |-> ss, initial_index |-> i, step_deg |-> w.step,
     max_index |-> w.max, phase_mode |-> w.mode, events |-> <<>>, others |-> 0]

InitLocals ==
    /\ pc = "entry"
    /\ k = 0
    /\ prev_jd = NoTime
    /\ prev_phase = 0
    /\ tracking_index = 0
    /\ jd = NoTime
    /\ curr_phase = 0
    /\ events = <<>>
    /\ phase_series = <<>>
    /\ index_series = <<>>
    /\ event_gap = <<>>
    /\ call_no = 1
    /\ karana_call = Idle
    /\ new_moon_call = Idle
    /\ masa_call = Idle
    /\ panchanga_call = Idle
    /\ LogicIdle

\* a first call of _collect_phase_events by wrapper w
FirstCallOf(w, ss, i) ==
    /\ step_deg = w.step
    /\ max_index = w.max
    /\ phase_mode = w.mode
    /\ samples = ss
    /\ initial_index = i
    /\ saved = FirstCall(ss, w, i)
    /\ InitLocals

Init ==
    \E w \in Wrappers : \E ss \in SampleSeries :
        \E i \in InitialIndices(ss, w) : FirstCallOf(w, ss, i)

Next == Detect

Spec == Init /\ [][Next]_vars

----------------------------------------------------------------------------
(* Properties of the returned events *)

EventIndex(e) == e[1]

EventTime(e) == e[2]

EventBoundary(e) == e[3]

SampleTime(j) == Whole(samples[j].jd)

\* the events emitted while the sample at position j was processed
EventsOfGap(j) == {i \in 1..Len(events) : event_gap[i] = j}

\* the period boundaries (multiples of step) in the half-open interval (lo, hi]
BoundariesIn(lo, hi, step) == {b \in (lo + 1)..hi : b % step = 0}

\* C1: the events are in non-decreasing order of crossing time, also
\* within one sample gap
EventsOrdered ==
    \A i \in 2..Len(events) : FracLeq(EventTime(events[i - 1]), EventTime(events[i]))

\* witness of C1: a finished run with two events in one gap at different
\* times and a later event in the next gap
EventsOrderedWitness ==
    /\ pc = "return"
    /\ \E i \in 2..Len(events) :
          /\ event_gap[i - 1] = event_gap[i]
          /\ EventTime(events[i - 1]) # EventTime(events[i])
    /\ \E i \in 2..Len(events) : event_gap[i - 1] < event_gap[i]

\* C2: the first event carries initial_index and every later event the
\* index after its predecessor's, modulo max_index
IndicesConsecutive ==
    /\ Len(events) >= 1 => EventIndex(events[1]) = initial_index
    /\ \A i \in 2..Len(events) :
          EventIndex(events[i]) = (EventIndex(events[i - 1]) + 1) % max_index

\* witness of C2: the index wraps from max_index - 1 to 0 between two events,
\* for max_index 30 or 27
IndicesConsecutiveWitness ==
    /\ pc = "return"
    /\ max_index \in {27, 30}
    /\ \E i \in 2..Len(events) :
          /\ EventIndex(events[i - 1]) = max_index - 1
          /\ EventIndex(events[i]) = 0

\* C3: every event's boundary phase is ((index + 1) * step_deg) mod 360
BoundaryMatchesIndex ==
    \A i \in 1..Len(events) :
        EventBoundary(events[i]) = ((EventIndex(events[i]) + 1) * step_deg) % FULL

\* witness of C3: an event at the 0/360 boundary and one at another boundary
BoundaryMatchesIndexWitness ==
    /\ pc = "return"
    /\ step_deg * max_index = FULL
    /\ initial_index \in 0..(max_index - 1)
    /\ \E i \in 1..Len(events) : EventBoundary(events[i]) = 0
    /\ \E i \in 1..Len(events) : EventBoundary(events[i]) # 0

\* the gap that ended at sample j is one C5 speaks of: the unwrapped phase
\* rose by less than 180 degrees and the tracked index was the period of the
\* phase at the gap's first sample
RisingGap(j) ==
    /\ 0 < phase_series[j] - phase_series[j - 1]
    /\ phase_series[j] - phase_series[j - 1] < HALF
    /\ index_series[j - 1] = IndexOf(phase_series[j - 1], step_deg, max_index)

\* C5: for every processed gap with a rising phase and a matching index, the
\* number of events of the gap is the number of period boundaries in
\* (prev_phase, curr_phase]
GapCountsBoundaries ==
    \A j \in 2..Len(index_series) :
        RisingGap(j) =>
            Cardinality(EventsOfGap(j)) =
                Cardinality(BoundariesIn(phase_series[j - 1], phase_series[j], step_deg))

\* witness of C5: one rising gap without a boundary and one with several
GapCountsBoundariesWitness ==
    /\ pc = "return"
    /\ \E j \in 2..Len(index_series) :
          RisingGap(j) /\ Cardinality(EventsOfGap(j)) = 0
    /\ \E j \in 2..Len(index_series) :
          RisingGap(j) /\ Cardinality(EventsOfGap(j)) > 1

\* C8: no sample or one sample gives no event
NoGapNoEvents == (pc = "return" /\ Len(samples) <= 1) => events = <<>>

\* witness of C8: a one-sample call has returned, with an initial index other
\* than the period of the sample's phase
NoGapNoEventsWitness ==
    /\ pc = "return"
    /\ Len(samples) = 1
    /\ initial_index = max_index - 1
    /\ initial_index #
           IndexOf(get_phase(phase_mode, samples[1].sun, samples[1].moon),
                   step_deg, max_index)

\* C10: every event time lies between the two sample times of its gap, hence
\* between the first and the last sample time
EventsWithinGap ==
    \A i \in 1..Len(events) :
        /\ FracLeq(SampleTime(event_gap[i] - 1), EventTime(events[i]))
        /\ FracLeq(EventTime(events[i]), SampleTime(event_gap[i]))
        /\ FracLeq(SampleTime(1), EventTime(events[i]))
        /\ FracLeq(EventTime(events[i]), SampleTime(Len(samples)))

\* witness of C10: events of the second gap, strictly after the gap's first
\* sample, in every phase mode's run
EventsWithinGapWitness ==
    /\ pc = "return"
    /\ \E i \in 1..Len(events) :
          /\ event_gap[i] = 3
          /\ EventTime(events[i]) # SampleTime(2)
          /\ EventTime(events[i]) # SampleTime(3)

----------------------------------------------------------------------------
(* The linear scenario: a Sun-Moon elongation rising from 0 to 24 degrees *)

\* the elongation gained per tick, and its value at the last sample
LinearRate == Deg(2)

LinearEnd == Deg(24)

LinearTicks == LinearEnd \div LinearRate

\* the sample taken at tick t when the Sun starts at sun0
LinearSample(sun0, t) ==
    [jd |-> t,
     sun |-> (sun0 + t * SunPerTick) % FULL,
     moon |-> (sun0 + t * SunPerTick + t * LinearRate) % FULL]

\* non-decreasing sequences of m ticks (the intermediate samples' times)
RECURSIVE Placements(_)
Placements(m) ==
    IF m = 0 THEN {<<>>}
    ELSE UNION {{Append(q, t) :
                     t \in (IF q = <<>> THEN 0 ELSE q[Len(q)])..LinearTicks} :
                q \in Placements(m - 1)}

LinearTimes ==
    {<<0>> \o q \o <<LinearTicks>> : q \in UNION {Placements(m) : m \in 0..(MaxLinearSamples - 2)}}

LinearSeries ==
    {[j \in 1..Len(ts) |-> LinearSample(sun0, ts[j])] :
         ts \in LinearTimes, sun0 \in SunGrid \cup {Deg(350)}}

InitLinear ==
    \E ss \in LinearSeries : FirstCallOf(collect_tithi_events, ss, 0)

SpecLinear == InitLinear /\ [][Next]_vars

\* C4: on the linear scenario the call returns exactly the events (0, time of
\* 12 degrees) and (1, time of 24 degrees)
LinearTwoEvents ==
    pc = "return" =>
        events = << <<0, Frac(Deg(12), LinearRate), Deg(12)>>,
                    <<1, Frac(Deg(24), LinearRate), Deg(24)>> >>

\* witness of C4: a finished run with intermediate samples, one of them
\* exactly on the 12 degree boundary, one strictly between the boundaries,
\* and the last sample on 24 degrees
LinearTwoEventsWitness ==
    /\ pc = "return"
    /\ Len(samples) >= 4
    /\ \E j \in 2..(Len(samples) - 1) : phase_series[j] = Deg(12)
    /\ \E j \in 2..(Len(samples) - 1) : phase_series[j] \notin {0, Deg(12), Deg(24)}
    /\ phase_series[Len(samples)] = Deg(24)
    /\ Len(events) = 2

----------------------------------------------------------------------------
(* Long series: the Moon moves 100 degrees between samples, either way *)

LongSteps == {Deg(-100), Deg(100)}

LongSeries == UNION {Series(n, {1}, LongSteps) : n \in 0..MaxLongSamples}

InitLong ==
    \E w \in Wrappers : \E ss \in LongSeries :
        FirstCallOf(w, ss,
                    IF ss = <<>> THEN 0
                    ELSE IndexOf(get_phase(w.mode, ss[1].sun, ss[1].moon), w.step, w.max))

SpecLong == InitLong /\ [][Next]_vars

\* the raw phase of the sample at position j
RawPhase(j) == get_phase(phase_mode, samples[j].sun, samples[j].moon)

\* the angular distance between two raw phases, the short way round
CircDist(a, b) ==
    IF (a - b) % FULL <= (b - a) % FULL THEN (a - b) % FULL ELSE (b - a) % FULL

\* C6: every unwrapped phase is congruent to the raw phase modulo 360 and
\* is the congruent value closest to the phase it was unwrapped against,
\* hence at most 180 degrees away from it
UnwrapClosest ==
    \A j \in 2..Len(phase_series) :
        /\ (phase_series[j] - RawPhase(j)) % FULL = 0
        /\ Abs(phase_series[j] - phase_series[j - 1]) <= HALF

\* C7: in a series whose raw phase moves less than 180 degrees between
\* consecutive samples, consecutive unwrapped phases differ by less than
\* 180 degrees
UnwrappedStepsSmall ==
    \A j \in 2..Len(phase_series) :
        (\A i \in 2..j : CircDist(RawPhase(i), RawPhase(i - 1)) < HALF)
            => Abs(phase_series[j] - phase_series[j - 1]) < HALF

----------------------------------------------------------------------------
(* Repeated calls: the first call, other calls, and the first call again *)

\* the calls made between the two runs of the first call
OtherCalls ==
    {[samples |-> <<>>, w |-> collect_yoga_events, initial_index |-> 0],
     [samples |-> <<[jd |-> 0, sun |-> 0, moon |-> Deg(40)],
                    [jd |-> 2, sun |-> Deg(2), moon |-> Deg(90)]>>,
      w |-> collect_tithi_events, initial_index |-> 3]}

\* call the function with the given arguments; the locals of the call that
\* has returned are dead and hold whatever that call left in them
CallWith(ss, i, step, max, mode) ==
    /\ samples' = ss
    /\ initial_index' = i
    /\ step_deg' = step
    /\ max_index' = max
    /\ phase_mode' = mode
    /\ pc' = "entry"
    /\ UNCHANGED <<k, prev_jd, prev_phase, tracking_index, jd, curr_phase, events,
                   history, frames>>

CallFirstAgain ==
    CallWith(saved.samples, saved.initial_index, saved.step_deg, saved.max_index,
             saved.phase_mode)

Recall ==
    /\ pc = "return"
    /\ \/ /\ call_no = 1
          /\ saved' = [saved EXCEPT !.events = events]
          /\ call_no' = 3
          /\ CallFirstAgain
       \/ /\ call_no = 1
          /\ saved' = [saved EXCEPT !.events = events, !.others = 1]
          /\ call_no' = 2
          /\ \E o \in OtherCalls :
                CallWith(o.samples, o.initial_index, o.w.step, o.w.max, o.w.mode)
       \/ /\ call_no = 2
          /\ UNCHANGED saved
          /\ call_no' = 3
          /\ CallFirstAgain

RerunSteps == {Deg(-10), 0, Deg(30), Deg(200)}

RerunSeries == UNION {Series(n, {1}, RerunSteps) : n \in 0..MaxSamples}

InitRerun ==
    \E w \in Wrappers : \E ss \in RerunSeries :
        \E i \in InitialIndices(ss, w) : FirstCallOf(w, ss, i)

NextRerun == Detect \/ Recall

SpecRerun == InitRerun /\ [][NextRerun]_vars

\* C9: while the first call runs, and while it runs again, the sample
\* sequence is the one that was passed; and the second run of the first call
\* returns the event list the first run returned, whatever was called between
SameCallSameEvents ==
    call_no \in {1, 3} =>
        /\ samples = saved.samples
        /\ (call_no = 3 /\ pc = "return") => events = saved.events

\* witness of C9: the first call returned events, another call was made, and
\* the first call has been run again to its return
SameCallSameEventsWitness ==
    /\ call_no = 3
    /\ pc = "return"
    /\ saved.others = 1
    /\ Len(saved.events) >= 2
    /\ Len(saved.samples) = 3

----------------------------------------------------------------------------
(* collect_karana_events_from_tithis: two Karana events per Tithi interval *)

MaxTithiEvents == 3

\* _collect_phase_events is not being called
DetectorIdle ==
    /\ samples = <<>>
    /\ initial_index = 0
    /\ step_deg = collect_tithi_events.step
    /\ max_index = collect_tithi_events.max
    /\ phase_mode = collect_tithi_events.mode
    /\ pc = "idle"
    /\ k = 0
    /\ prev_jd = NoTime
    /\ prev_phase = 0
    /\ tracking_index = 0
    /\ jd = NoTime
    /\ curr_phase = 0
    /\ events = <<>>
    /\ phase_series = <<>>
    /\ index_series = <<>>
    /\ event_gap = <<>>
    /\ call_no = 1
    /\ saved = FirstCall(<<>>, collect_tithi_events, 0)

FracLess(x, y) == ~FracLeq(y, x)

\* a TithiEvent or KaranaEvent: its index and its end time
PhaseEvent(index, end_jd_utc) == <<index, end_jd_utc>>

\* the nested function add, with the list it appends to as its first argument
add_without_halving(evts, idx, start, end) ==
    IF FracLeq(end, start) THEN evts
    ELSE LET mid == FracAdd(start, end)
         IN  evts \o <<PhaseEvent((idx * 2) % 60, mid),
                       PhaseEvent((idx * 2 + 1) % 60, end)>>

\* a slip: only an interval that runs backwards is skipped
add_keeps_empty_interval(evts, idx, start, end) ==
    IF FracLess(end, start) THEN evts
    ELSE LET mid == FracMul(FracAdd(start, end), Frac(1, 2))
         IN  evts \o <<PhaseEvent((idx * 2) % 60, mid),
                       PhaseEvent((idx * 2 + 1) % 60, end)>>

add(evts, idx, start, end) ==
    IF FracLeq(end, start) THEN evts
    ELSE LET mid == FracMul(FracAdd(start, end), Frac(1, 2))
         IN  evts \o <<PhaseEvent((idx * 2) % 60, mid),
                       PhaseEvent((idx * 2 + 1) % 60, end)>>

\* the frame of a call that has just been made
KaranaCall(sunrise_jd, next_sunrise_jd, tithi_idx_at_sunrise, tithi_events) ==
    [pc |-> "entry", sunrise_jd |-> sunrise_jd, next_sunrise_jd |-> next_sunrise_jd,
     tithi_idx_at_sunrise |-> tithi_idx_at_sunrise, tithi_events |-> tithi_events,
     i |-> 0, curr_start |-> NoTime, curr_idx |-> 0, events |-> <<>>]

KaranaOnly == UNCHANGED <<args, locals, history, calls, new_moon_call, masa_call,
                          panchanga_call, logic>>

KaranaEntry ==
    /\ karana_call.pc = "entry"
    /\ karana_call' = [karana_call EXCEPT !.pc = "for", !.events = <<>>, !.i = 1,
                           !.curr_start = karana_call.sunrise_jd,
                           !.curr_idx = karana_call.tithi_idx_at_sunrise]
    /\ KaranaOnly

KaranaForKeepsIndex ==
    /\ karana_call.pc = "for"
    /\ karana_call.i <= Len(karana_call.tithi_events)
    /\ LET evt == karana_call.tithi_events[karana_call.i]
       IN  karana_call' =
               [karana_call EXCEPT
                    !.events = add(karana_call.events, karana_call.curr_idx,
                                   karana_call.curr_start, EventTime(evt)),
                    !.curr_idx = EventIndex(evt) % 30,
                    !.curr_start = EventTime(evt),
                    !.i = karana_call.i + 1]
    /\ KaranaOnly

KaranaFor ==
    /\ karana_call.pc = "for"
    /\ karana_call.i <= Len(karana_call.tithi_events)
    /\ LET evt == karana_call.tithi_events[karana_call.i]
       IN  karana_call' =
               [karana_call EXCEPT
                    !.events = add(karana_call.events, karana_call.curr_idx,
                                   karana_call.curr_start, EventTime(evt)),
                    !.curr_idx = (EventIndex(evt) + 1) % 30,
                    !.curr_start = EventTime(evt),
                    !.i = karana_call.i + 1]
    /\ KaranaOnly

KaranaTailSkipped ==
    /\ karana_call.pc = "for"
    /\ karana_call.i > Len(karana_call.tithi_events)
    /\ karana_call' = [karana_call EXCEPT !.pc = "return"]
    /\ KaranaOnly

KaranaTail ==
    /\ karana_call.pc = "for"
    /\ karana_call.i > Len(karana_call.tithi_events)
    /\ karana_call' =
           [karana_call EXCEPT
                !.pc = "return",
                !.events =
                    IF FracLess(karana_call.curr_start, karana_call.next_sunrise_jd)
                    THEN add(karana_call.events, karana_call.curr_idx,
                             karana_call.curr_start, karana_call.next_sunrise_jd)
                    ELSE karana_call.events]
    /\ KaranaOnly

Karana == KaranaEntry \/ KaranaFor \/ KaranaTail

\* inputs: a day from tick 1 to tick 5, and Tithi events in time order from
\* the tick before sunrise to the tick after the next sunrise
KaranaSunrise == Whole(1)

KaranaNextSunrise == Whole(5)

KaranaTimes == 0..6

TithiIndexChoices == {0, 14, 29}

\* the times a further event of the list q can have
LaterTimes(q) ==
    {t \in KaranaTimes : q = <<>> \/ FracLeq(EventTime(q[Len(q)]), Whole(t))}

RECURSIVE TithiEventLists(_)
TithiEventLists(n) ==
    IF n = 0 THEN {<<>>}
    ELSE UNION {{Append(q, PhaseEvent(i, Whole(t))) :
                     i \in TithiIndexChoices, t \in LaterTimes(q)} :
                q \in TithiEventLists(n - 1)}

InitKarana ==
    /\ DetectorIdle
    /\ LogicIdle
    /\ new_moon_call = Idle
    /\ masa_call = Idle
    /\ panchanga_call = Idle
    /\ \E n \in 0..MaxTithiEvents : \E te \in TithiEventLists(n) :
           \E i0 \in TithiIndexChoices :
               karana_call = KaranaCall(KaranaSunrise, KaranaNextSunrise, i0, te)

NextKarana == Karana

SpecKarana == InitKarana /\ [][NextKarana]_vars
\* the chain of Tithi intervals of the call: interval j runs from the sunrise
\* (j = 1) or the end of Tithi event j - 1 to the end of Tithi event j, or to
\* the next sunrise after the last event
ChainLength == Len(karana_call.tithi_events) + 1

IntervalStart(j) ==
    IF j = 1 THEN karana_call.sunrise_jd
    ELSE EventTime(karana_call.tithi_events[j - 1])

IntervalEnd(j) ==
    IF j < ChainLength THEN EventTime(karana_call.tithi_events[j])
    ELSE karana_call.next_sunrise_jd

IntervalIndex(j) ==
    IF j = 1 THEN karana_call.tithi_idx_at_sunrise
    ELSE (EventIndex(karana_call.tithi_events[j - 1]) + 1) % 30

NonDegenerate(j) == FracLess(IntervalStart(j), IntervalEnd(j))

\* the time halfway between two times
Midpoint(a, b) == Frac(a[1] * b[2] + b[1] * a[2], 2 * a[2] * b[2])

RECURSIVE ExpectedKaranas(_)
ExpectedKaranas(j) ==
    IF j = 0 THEN <<>>
    ELSE ExpectedKaranas(j - 1) \o
         (IF NonDegenerate(j)
          THEN <<<<(2 * IntervalIndex(j)) % 60,
                   Midpoint(IntervalStart(j), IntervalEnd(j))>>,
                 <<(2 * IntervalIndex(j) + 1) % 60, IntervalEnd(j)>>>>
          ELSE <<>>)

\* C11: the returned list is, interval by interval of the chain and for the
\* non-degenerate intervals only, the pair ((2i) mod 60, midpoint) and
\* ((2i + 1) mod 60, end), i being the sunrise index for the first interval
\* and (index of the preceding Tithi event + 1) mod 30 for the later ones
KaranaPairsPerInterval ==
    karana_call.pc = "return" => karana_call.events = ExpectedKaranas(ChainLength)

\* witness of C11: a call returned with at least two non-degenerate
\* intervals, one of them after a Tithi event of index 29
KaranaPairsPerIntervalWitness ==
    /\ karana_call.pc = "return"
    /\ Len(karana_call.events) >= 4
    /\ \E j \in 2..ChainLength :
           NonDegenerate(j) /\ EventIndex(karana_call.tithi_events[j - 1]) = 29

\* the Tithi events are strictly increasing in time and strictly between the
\* sunrise and the next sunrise
StrictlyInside ==
    /\ \A j \in 1..Len(karana_call.tithi_events) :
           /\ FracLess(karana_call.sunrise_jd, EventTime(karana_call.tithi_events[j]))
           /\ FracLess(EventTime(karana_call.tithi_events[j]),
                       karana_call.next_sunrise_jd)
    /\ \A j \in 2..Len(karana_call.tithi_events) :
           FracLess(EventTime(karana_call.tithi_events[j - 1]),
                    EventTime(karana_call.tithi_events[j]))

\* C12: n Tithi events strictly increasing and strictly inside the day give
\* exactly 2 (n + 1) Karana events
KaranaCountStrict ==
    (karana_call.pc = "return" /\ StrictlyInside)
        => Len(karana_call.events) = 2 * (Len(karana_call.tithi_events) + 1)

\* witness of C12: a call with two such Tithi events returned
KaranaCountStrictWitness ==
    /\ karana_call.pc = "return"
    /\ StrictlyInside
    /\ Len(karana_call.tithi_events) >= 2

\* the Tithi events are in non-decreasing time order within the day
OrderedWithinDay ==
    /\ \A j \in 1..Len(karana_call.tithi_events) :
           /\ FracLeq(karana_call.sunrise_jd, EventTime(karana_call.tithi_events[j]))
           /\ FracLeq(EventTime(karana_call.tithi_events[j]),
                      karana_call.next_sunrise_jd)
    /\ \A j \in 2..Len(karana_call.tithi_events) :
           FracLeq(EventTime(karana_call.tithi_events[j - 1]),
                   EventTime(karana_call.tithi_events[j]))

LastTithiBeforeNextSunrise ==
    /\ karana_call.tithi_events # <<>>
    /\ FracLess(EventTime(karana_call.tithi_events[Len(karana_call.tithi_events)]),
                karana_call.next_sunrise_jd)

\* C13: for Tithi events in non-decreasing time order within the day the
\* Karana events are in non-decreasing time order, the first one ends at or
\* after the sunrise, and the last one ends exactly at the next sunrise
\* whenever the last Tithi event is before the next sunrise
KaranaOrdered ==
    (karana_call.pc = "return" /\ OrderedWithinDay) =>
        /\ \A j \in 2..Len(karana_call.events) :
               FracLeq(EventTime(karana_call.events[j - 1]),
                       EventTime(karana_call.events[j]))
        /\ karana_call.events # <<>> =>
               FracLeq(karana_call.sunrise_jd, EventTime(karana_call.events[1]))
        /\ LastTithiBeforeNextSunrise =>
               /\ karana_call.events # <<>>
               /\ EventTime(karana_call.events[Len(karana_call.events)])
                      = karana_call.next_sunrise_jd

\* witness of C13: a call returned six Karana events for Tithi events within
\* the day, the last of them before the next sunrise
KaranaOrderedWitness ==
    /\ karana_call.pc = "return"
    /\ OrderedWithinDay
    /\ LastTithiBeforeNextSunrise
    /\ Len(karana_call.events) >= 6

----------------------------------------------------------------------------
(* _find_new_moon_jd and _compute_masa: the new moons around a sunrise *)

\* The solver's angles are counted in 1/100000 of a degree. Its times are
\* counted in beats, a beat being the time in which the Moon gains one angle
\* unit on the Sun at 12.19 degrees a day (1/1219000 of a day), and time 0 is
\* the sunrise the search starts from.
Fine(d) == 100000 * d

TURN == Fine(360)

\* range(5) of the solver's loop
MaxIterations == 5

\* t * num / den, rounded down, without an intermediate product over 32 bits
Scaled(t, num, den) == num * (t \div den) + (num * (t % den)) \div den

\* the elongation rates of the ephemerides tried, in tenths of 12.19 degrees
\* a day
ElongRates == {9, 10, 11}

\* eph.calculate_positions: the Sun moves 7/100 of an angle unit each beat,
\* the Moon gains rate/10 of an angle unit on the Sun
SunAt(eph, t) == (eph.sun0 + Scaled(t, 7, 100)) % TURN

ElongAt(eph, t) == (eph.elong0 + Scaled(t, eph.rate, 10)) % TURN

_frame_at_jd(eph, jd_utc) ==
    [Sun |-> SunAt(eph, jd_utc),
     Moon |-> (SunAt(eph, jd_utc) + ElongAt(eph, jd_utc)) % TURN]

\* dist_to_target / 12.19, in beats: the same count as the angle units
days_step(dist_to_target) == dist_to_target

\* abs(days_step) < 1e-6: 1e-6 of a day is 1219/1000 of a beat, and a whole
\* number of beats is below it when it is at most the whole part of it
below_threshold(step) == Abs(step) <= 1219 \div 1000

dist_to_target(phase, direction) == IF direction = 1 THEN TURN - phase ELSE -phase

NewMoonCall(eph, start_jd, direction) ==
    [pc |-> "for", eph |-> eph, start_jd |-> start_jd, direction |-> direction,
     curr_jd |-> start_jd, iterations |-> 0, result |-> 0,
     estimates |-> <<>>, phases |-> <<>>, steps |-> <<>>]

NewMoonOnly == UNCHANGED <<args, locals, history, calls, karana_call, masa_call,
                           panchanga_call, logic>>

\* one pass of the loop body; estimates, phases and steps are history
NewMoonIterationAddsStep ==
    /\ new_moon_call.pc = "for"
    /\ new_moon_call.iterations < MaxIterations
    /\ LET frame == _frame_at_jd(new_moon_call.eph, new_moon_call.curr_jd)
           phase == (frame.Moon - frame.Sun) % TURN
           step == days_step(dist_to_target(phase, new_moon_call.direction))
           seen == [new_moon_call EXCEPT
                        !.iterations = new_moon_call.iterations + 1,
                        !.estimates = Append(new_moon_call.estimates,
                                             new_moon_call.curr_jd),
                        !.phases = Append(new_moon_call.phases, phase),
                        !.steps = Append(new_moon_call.steps, step)]
       IN  new_moon_call' =
               IF below_threshold(step)
               THEN [seen EXCEPT !.pc = "return",
                                 !.result = new_moon_call.curr_jd + step]
               ELSE [seen EXCEPT !.curr_jd = new_moon_call.curr_jd + step]
    /\ NewMoonOnly

NewMoonIteration ==
    /\ new_moon_call.pc = "for"
    /\ new_moon_call.iterations < MaxIterations
    /\ LET frame == _frame_at_jd(new_moon_call.eph, new_moon_call.curr_jd)
           phase == (frame.Moon - frame.Sun) % TURN
           step == days_step(dist_to_target(phase, new_moon_call.direction))
           seen == [new_moon_call EXCEPT
                        !.iterations = new_moon_call.iterations + 1,
                        !.estimates = Append(new_moon_call.estimates,
                                             new_moon_call.curr_jd),
                        !.phases = Append(new_moon_call.phases, phase),
                        !.steps = Append(new_moon_call.steps, step)]
       IN  new_moon_call' =
               IF below_threshold(step)
               THEN [seen EXCEPT !.pc = "return", !.result = new_moon_call.curr_jd]
               ELSE [seen EXCEPT !.curr_jd = new_moon_call.curr_jd + step]
    /\ NewMoonOnly

NewMoonExhausted ==
    /\ new_moon_call.pc = "for"
    /\ new_moon_call.iterations = MaxIterations
    /\ new_moon_call' = [new_moon_call EXCEPT !.pc = "return",
                                              !.result = new_moon_call.curr_jd]
    /\ NewMoonOnly

_find_new_moon_jd == NewMoonIteration \/ NewMoonExhausted

\* int(sun / 30.0)
rasi(sun) == sun \div Fine(30)

MasaInfo(index, is_adhika) == [index |-> index, is_adhika |-> is_adhika]

MasaCall(eph, sunrise_jd) ==
    [pc |-> "entry", eph |-> eph, sunrise_jd |-> sunrise_jd, nm_prev |-> 0,
     nm_next |-> 0, result |-> MasaInfo(0, FALSE)]

MasaOnly ==
    UNCHANGED <<args, locals, history, calls, karana_call, panchanga_call, logic>>

MasaSearchBack ==
    /\ masa_call.pc = "entry"
    /\ new_moon_call' = NewMoonCall(masa_call.eph, masa_call.sunrise_jd, -1)
    /\ masa_call' = [masa_call EXCEPT !.pc = "nm_prev"]
    /\ MasaOnly

MasaSearchForward ==
    /\ masa_call.pc = "nm_prev"
    /\ new_moon_call.pc = "return"
    /\ new_moon_call' = NewMoonCall(masa_call.eph, masa_call.sunrise_jd, 1)
    /\ masa_call' = [masa_call EXCEPT !.pc = "nm_next",
                                      !.nm_prev = new_moon_call.result]
    /\ MasaOnly

is_adhika_by_index(rasi_prev, rasi_next) == (rasi_prev + 1) % 12 = rasi_next

is_adhika(rasi_prev, rasi_next) == rasi_prev = rasi_next

MasaReturn ==
    /\ masa_call.pc = "nm_next"
    /\ new_moon_call.pc = "return"
    /\ LET nm_prev == masa_call.nm_prev
           nm_next == new_moon_call.result
           sun_prev == _frame_at_jd(masa_call.eph, nm_prev).Sun
           sun_next == _frame_at_jd(masa_call.eph, nm_next).Sun
           rasi_prev == rasi(sun_prev)
           rasi_next == rasi(sun_next)
           masa_index_raw == (rasi_prev + 1) % 12
       IN  masa_call' =
               [masa_call EXCEPT
                    !.pc = "return",
                    !.nm_next = nm_next,
                    !.result = MasaInfo(IF masa_index_raw = 0 THEN 12
                                        ELSE masa_index_raw,
                                        is_adhika(rasi_prev, rasi_next))]
    /\ UNCHANGED new_moon_call
    /\ MasaOnly

_compute_masa == MasaSearchBack \/ MasaSearchForward \/ MasaReturn

\* inputs: the elongation and the Sun's longitude at the sunrise
ElongAtSunrise ==
    {0, 1, 2, 7, Fine(90), Fine(180), Fine(270), TURN - 7, TURN - 2, TURN - 1}

SunAtSunrise == {0, Fine(15), Fine(200), Fine(359)}

Ephemerides ==
    {[elong0 |-> e, sun0 |-> s, rate |-> r] :
         e \in ElongAtSunrise, s \in SunAtSunrise, r \in ElongRates}

InitMasa ==
    /\ DetectorIdle
    /\ LogicIdle
    /\ karana_call = Idle
    /\ new_moon_call = Idle
    /\ panchanga_call = Idle
    /\ \E eph \in Ephemerides : masa_call = MasaCall(eph, 0)

NextMasa == _find_new_moon_jd \/ _compute_masa

SpecMasa == InitMasa /\ [][NextMasa]_vars

\* the step that goes to the new moon by the shortest way round the circle
ShortestSigned(phase) == IF phase * 2 <= TURN THEN -phase ELSE TURN - phase

\* C14: from the second pass of the loop on, the step taken is the shortest
\* signed distance to the new moon (within half a turn either way) divided by
\* 12.19, whatever the direction; only the first pass is biased
LaterStepsShortest ==
    new_moon_call.pc # "idle" =>
        \A j \in 2..Len(new_moon_call.steps) :
            \/ new_moon_call.steps[j] = ShortestSigned(new_moon_call.phases[j])
            \/ new_moon_call.phases[j] * 2 = TURN

\* the elongation the Moon gains between the two new moons found
GainedBetween ==
    Scaled(masa_call.nm_next - masa_call.nm_prev, masa_call.eph.rate, 10)

\* C15: for an elongation rate close to 12.19 degrees a day but not equal to
\* it, the backward search ends at or before the sunrise, the forward search
\* at or after it, and the two results are less than two synodic periods
\* apart
NewMoonsAdjacent ==
    (masa_call.pc = "return" /\ masa_call.eph.rate # 10) =>
        /\ masa_call.nm_prev <= masa_call.sunrise_jd
        /\ masa_call.sunrise_jd <= masa_call.nm_next
        /\ GainedBetween < 2 * TURN

\* a step of less than 1e-6 of a day (1.219 beats)
TinyStep(step) == step \in {-1, 0, 1}

\* C16: the search evaluates the phase at most 5 times and can always go on
\* until it returns; it returns the estimate unchanged at the first step
\* below 1e-6 of a day, and otherwise the estimate after the fifth step
NewMoonBounded ==
    new_moon_call.pc # "idle" =>
        LET n == Len(new_moon_call.estimates)
        IN  /\ n <= 5
            /\ Len(new_moon_call.steps) = n
            /\ \A j \in 1..(n - 1) :
                   /\ ~TinyStep(new_moon_call.steps[j])
                   /\ new_moon_call.estimates[j + 1] =
                          new_moon_call.estimates[j] + new_moon_call.steps[j]
            /\ n >= 1 => new_moon_call.estimates[1] = new_moon_call.start_jd
            /\ new_moon_call.pc = "for" => ENABLED _find_new_moon_jd
            /\ new_moon_call.pc = "return" =>
                   /\ n >= 1
                   /\ IF TinyStep(new_moon_call.steps[n])
                      THEN new_moon_call.result = new_moon_call.estimates[n]
                      ELSE /\ n = 5
                           /\ new_moon_call.result =
                                  new_moon_call.estimates[n] + new_moon_call.steps[n]

\* witness of C16: a search returned on its second pass or later, at a step
\* that is below the threshold and not zero
NewMoonBoundedWitness ==
    /\ new_moon_call.pc = "return"
    /\ Len(new_moon_call.steps) >= 2
    /\ new_moon_call.steps[Len(new_moon_call.steps)] \in {-1, 1}

----------------------------------------------------------------------------
(* compute_panchanga: indices at sunrise, events of the day, the calendar *)

MaxSamplesPerDay == 4

\* Optional[...] values
None == <<>>

Some(x) == <<x>>

\* NakshatraEvent(index, pada, end_jd_utc), kept in the order (index, end
\* time, pada) so that EventIndex and EventTime read every kind of event
NakshatraEvent(index, pada, end_jd_utc) == <<index, end_jd_utc, pada>>

\* The day's times are counted in ticks of 1/60 of the span from a regular
\* sunrise to the next one, sunrise being tick 0; the longitudes of the day
\* are counted in thirds of a degree, as everywhere in the detector.
DaySpan == 12 * 5

\* the Sun's motion over a regular day
SunPerDay == Deg(1)

\* eph.calculate_positions over the day, for the sky [sun0, moon0, moon_per_day]
SkyFrame(sky, jd_utc) ==
    [Sun |-> (sky.sun0 + Scaled(jd_utc, SunPerDay, DaySpan)) % FULL,
     Moon |-> (sky.moon0 + Scaled(jd_utc, sky.moon_per_day, DaySpan)) % FULL]

\* the same ephemeris as the new moon search reads it: the elongation and
\* the Sun's longitude at sunrise in the solver's angle units, and the
\* elongation rate in tenths of 12.19 degrees a day
EphOf(sky) ==
    [elong0 |-> (((sky.moon0 - sky.sun0) % FULL) * Fine(1)) \div Deg(1),
     sun0 |-> (sky.sun0 * Fine(1)) \div Deg(1),
     rate |-> IF sky.moon_per_day - SunPerDay < Deg(12) + 1 THEN 9 ELSE 11]

\* the samples of one day; the sample times are whole ticks because the
\* span of a regular day is a multiple of every samples_per_day - 1 in use
_sample_sun_moon_longitudes(sky, sunrise_jd_utc, next_sunrise_jd_utc, samples_per_day) ==
    LET span == next_sunrise_jd_utc - sunrise_jd_utc
        point(i) ==
            LET frac == Frac(i, samples_per_day - 1)
                at == FracAdd(Whole(sunrise_jd_utc), FracMul(frac, Whole(span)))
                longs == SkyFrame(sky, at[1] \div at[2])
            IN  [jd |-> at[1] \div at[2], sun |-> (longs.Sun + FULL) % FULL,
                 moon |-> (longs.Moon + FULL) % FULL]
    IN  IF samples_per_day < 2 \/ span <= 0 THEN <<>>
        ELSE [i \in 1..samples_per_day |-> point(i - 1)]

\* the indices at sunrise
tithi_index_at(sun, moon) == (((moon - sun) % FULL) \div Deg(12)) % 30

nak_step == FULL \div 27

nak_index_at(moon) == (moon \div nak_step) % 27

pada_from_zero(moon) == (moon % nak_step) \div (nak_step \div 4)

pada_at(moon) == ((moon % nak_step) \div (nak_step \div 4)) + 1

yoga_index_at(sun, moon) == (((moon + sun) % FULL) \div nak_step) % 27

karana_index_at(sun, moon) == (((moon - sun) % FULL) \div Deg(6)) % 60

\* math.ceil(jd + 1.0) is an input of the model: the day's ticks do not keep
\* the Julian day number
_get_vara(ceiled) ==
    LET idx == ceiled % 7
        names == <<"Sunday", "Monday", "Tuesday", "Wednesday", "Thursday",
                   "Friday", "Saturday">>
    IN  <<idx, names[idx + 1]>>

_get_paksha(tithi_index) == IF tithi_index < 15 THEN "Shukla" ELSE "Krishna"

\* the wrappers' conversions of the raw events
TithiEvents(raw) == [j \in 1..Len(raw) |-> PhaseEvent(raw[j][1], raw[j][2])]

NakshatraEvents(raw) == [j \in 1..Len(raw) |-> NakshatraEvent(raw[j][1], 4, raw[j][2])]

YogaEvents(raw) == [j \in 1..Len(raw) |-> PhaseEvent(raw[j][1], raw[j][2])]

\* if x_events: x_end = x_events[0].end_jd_utc
first_end_of_last(evts) ==
    IF evts # <<>> THEN Some(EventTime(evts[Len(evts)])) ELSE None

first_end(evts) == IF evts # <<>> THEN Some(EventTime(evts[1])) ELSE None

TithiInfo(index, name, start_jd_utc, end_jd_utc, evts) ==
    [index |-> index, name |-> name, start_jd_utc |-> start_jd_utc,
     end_jd_utc |-> end_jd_utc, events |-> evts]

NakshatraInfo(index, pada, start_jd_utc, end_jd_utc, evts) ==
    [index |-> index, pada |-> pada, start_jd_utc |-> start_jd_utc,
     end_jd_utc |-> end_jd_utc, events |-> evts]

YogaInfo(index, start_jd_utc, end_jd_utc, evts) ==
    [index |-> index, start_jd_utc |-> start_jd_utc, end_jd_utc |-> end_jd_utc,
     events |-> evts]

KaranaInfo(index, start_jd_utc, end_jd_utc, evts) ==
    [index |-> index, start_jd_utc |-> start_jd_utc, end_jd_utc |-> end_jd_utc,
     events |-> evts]

PanchangaResult(c, masa) ==
    [sunrise_jd_utc |-> Whole(c.day.sunrise),
     sunset_jd_utc |-> Whole(c.day.sunset),
     tithi |-> TithiInfo(c.tithi_index, None, Whole(c.day.sunrise), c.t_end,
                         c.t_events),
     nakshatra |-> NakshatraInfo(c.nak_index, c.pada, Whole(c.day.sunrise),
                                 c.n_end, c.n_events),
     yoga |-> YogaInfo(c.yoga_index, Whole(c.day.sunrise), c.y_end, c.y_events),
     karana |-> KaranaInfo(c.karana_index, Whole(c.day.sunrise), c.k_end,
                           c.k_events),
     vara |-> c.vara_name,
     vara_index |-> c.vara_idx,
     paksha |-> c.paksha_name,
     masa |-> masa,
     samples |-> c.samples]

\* the frame of a call that has just been made
PanchangaCall(day, sky, config) ==
    [pc |-> "entry", day |-> day, sky |-> sky, config |-> config,
     tithi_index |-> 0, nak_index |-> 0, pada |-> 0, yoga_index |-> 0,
     karana_index |-> 0, t_events |-> <<>>, n_events |-> <<>>, y_events |-> <<>>,
     k_events |-> <<>>, t_end |-> None, n_end |-> None, y_end |-> None,
     k_end |-> None, samples |-> None, vara_idx |-> 0, vara_name |-> "",
     paksha_name |-> "", result |-> None]

DetectorUntouched == UNCHANGED <<args, locals, history, calls>>

\* a wrapper calls _collect_phase_events
DetectorCall(ss, w, initial) ==
    /\ samples' = ss
    /\ initial_index' = initial
    /\ step_deg' = w.step
    /\ max_index' = w.max
    /\ phase_mode' = w.mode
    /\ pc' = "entry"
    /\ UNCHANGED <<k, prev_jd, prev_phase, tracking_index, jd, curr_phase, events,
                   history, calls>>

\* the sunrise snapshot and the indices; with compute_end_times the samples
\* are taken and collect_tithi_events is called
PanchangaSunrise ==
    /\ panchanga_call.pc = "entry"
    /\ LET c == panchanga_call
           frame == SkyFrame(c.sky, c.day.sunrise)
           sun == frame.Sun
           moon == frame.Moon
           seen == [c EXCEPT !.tithi_index = tithi_index_at(sun, moon),
                             !.nak_index = nak_index_at(moon),
                             !.pada = pada_at(moon),
                             !.yoga_index = yoga_index_at(sun, moon),
                             !.karana_index = karana_index_at(sun, moon)]
       IN  IF c.config.compute_end_times
           THEN LET ss == _sample_sun_moon_longitudes(
                              c.sky, c.day.sunrise, c.day.next_day_rise,
                              c.config.samples_per_day)
                IN  /\ panchanga_call' = [seen EXCEPT !.pc = "t_events",
                                                      !.samples = Some(ss)]
                    /\ DetectorCall(ss, collect_tithi_events, seen.tithi_index)
           ELSE /\ panchanga_call' = [seen EXCEPT !.pc = "calendar"]
                /\ DetectorUntouched
    /\ UNCHANGED <<karana_call, new_moon_call, masa_call, logic>>

\* collect_tithi_events has returned; collect_nakshatra_events is called
PanchangaNakshatra ==
    /\ panchanga_call.pc = "t_events"
    /\ pc = "return"
    /\ panchanga_call' = [panchanga_call EXCEPT !.pc = "n_events",
                                                !.t_events = TithiEvents(events)]
    /\ DetectorCall(panchanga_call.samples[1], collect_nakshatra_events,
                    panchanga_call.nak_index)
    /\ UNCHANGED <<karana_call, new_moon_call, masa_call, logic>>

\* collect_nakshatra_events has returned; collect_yoga_events is called
PanchangaYoga ==
    /\ panchanga_call.pc = "n_events"
    /\ pc = "return"
    /\ panchanga_call' = [panchanga_call EXCEPT !.pc = "y_events",
                                                !.n_events = NakshatraEvents(events)]
    /\ DetectorCall(panchanga_call.samples[1], collect_yoga_events,
                    panchanga_call.yoga_index)
    /\ UNCHANGED <<karana_call, new_moon_call, masa_call, logic>>

\* collect_yoga_events has returned; collect_karana_events_from_tithis is
\* called
PanchangaKarana ==
    /\ panchanga_call.pc = "y_events"
    /\ pc = "return"
    /\ panchanga_call' = [panchanga_call EXCEPT !.pc = "k_events",
                                                !.y_events = YogaEvents(events)]
    /\ karana_call' = KaranaCall(Whole(panchanga_call.day.sunrise),
                                 Whole(panchanga_call.day.next_day_rise),
                                 panchanga_call.tithi_index,
                                 panchanga_call.t_events)
    /\ DetectorUntouched
    /\ UNCHANGED <<new_moon_call, masa_call, logic>>

\* the Karana events are back; the end times are those of the first events
PanchangaEndTimes ==
    /\ panchanga_call.pc = "k_events"
    /\ karana_call.pc = "return"
    /\ LET c == panchanga_call
           k_events == karana_call.events
       IN  panchanga_call' = [c EXCEPT !.pc = "calendar",
                                       !.k_events = k_events,
                                       !.t_end = first_end(c.t_events),
                                       !.n_end = first_end(c.n_events),
                                       !.y_end = first_end(c.y_events),
                                       !.k_end = first_end(k_events)]
    /\ DetectorUntouched
    /\ UNCHANGED <<karana_call, new_moon_call, masa_call, logic>>

\* the weekday and the fortnight; _compute_masa is called at the sunrise
PanchangaCalendar ==
    /\ panchanga_call.pc = "calendar"
    /\ LET c == panchanga_call
           vara == _get_vara(c.day.sunrise_plus_one_ceiled)
       IN  panchanga_call' = [c EXCEPT !.pc = "masa",
                                       !.vara_idx = vara[1],
                                       !.vara_name = vara[2],
                                       !.paksha_name = _get_paksha(c.tithi_index)]
    /\ masa_call' = MasaCall(EphOf(panchanga_call.sky), 0)
    /\ DetectorUntouched
    /\ UNCHANGED <<karana_call, new_moon_call, logic>>

\* _compute_masa has returned; the result is assembled
PanchangaReturn ==
    /\ panchanga_call.pc = "masa"
    /\ masa_call.pc = "return"
    /\ panchanga_call' =
           [panchanga_call EXCEPT
                !.pc = "return",
                !.result = PanchangaResult(panchanga_call, masa_call.result)]
    /\ DetectorUntouched
    /\ UNCHANGED <<karana_call, new_moon_call, masa_call, logic>>

compute_panchanga ==
    \/ PanchangaSunrise
    \/ PanchangaNakshatra
    \/ PanchangaYoga
    \/ PanchangaKarana
    \/ PanchangaEndTimes
    \/ PanchangaCalendar
    \/ PanchangaReturn

\* inputs: the longitudes at sunrise over the whole circle, a slow and a
\* fast Moon, a regular day and a day whose next sunrise is not after its
\* sunrise, a Tuesday and a Saturday, and the configurations
SunriseMoons == {Deg(20) * i : i \in 0..17} \cup {FULL - 1}

SunriseSuns == {0, Deg(95), FULL - 1}

MoonPerDay == {Deg(13), Deg(27)}

Skies ==
    {[sun0 |-> s, moon0 |-> m, moon_per_day |-> v] :
         s \in SunriseSuns, m \in SunriseMoons, v \in MoonPerDay}

Days ==
    {[sunrise |-> 0, sunset |-> DaySpan \div 2, next_day_rise |-> n,
      sunrise_plus_one_ceiled |-> 2460264 + d] :
         n \in {0, DaySpan}, d \in {0, 4}}

PanchangaConfig(compute_end_times, samples_per_day) ==
    [compute_end_times |-> compute_end_times, samples_per_day |-> samples_per_day]

Configs ==
    {PanchangaConfig(FALSE, 5)} \cup
    {PanchangaConfig(TRUE, n) : n \in 1..MaxSamplesPerDay}

InitPanchanga ==
    /\ DetectorIdle
    /\ LogicIdle
    /\ karana_call = Idle
    /\ new_moon_call = Idle
    /\ masa_call = Idle
    /\ \E day \in Days : \E sky \in Skies : \E config \in Configs :
           panchanga_call = PanchangaCall(day, sky, config)

NextPanchanga ==
    compute_panchanga \/ Detect \/ Karana \/ _find_new_moon_jd \/ _compute_masa

SpecPanchanga == InitPanchanga /\ [][NextPanchanga]_vars

\* the result of a call that has returned
Returned == panchanga_call.pc = "return"

\* C18: the result has the special time windows, and on a Tuesday (weekday
\* index 2) the Rahu window starts at sunrise + 0.75 (sunset - sunrise),
\* lasts (sunset - sunrise) / 8 and lies between sunrise and sunset
RahuKalamOnTuesday ==
    (Returned /\ panchanga_call.result.vara_index = 2) =>
        LET r == panchanga_call.result
            duration == FracSub(r.sunset_jd_utc, r.sunrise_jd_utc)
        IN  /\ "special_times" \in DOMAIN r
            /\ r.special_times.rahu_kalam.start_jd_utc =
                   FracAdd(r.sunrise_jd_utc, FracMul(Frac(3, 4), duration))
            /\ FracSub(r.special_times.rahu_kalam.end_jd_utc,
                       r.special_times.rahu_kalam.start_jd_utc) =
                   FracMul(Frac(1, 8), duration)
            /\ FracLeq(r.sunrise_jd_utc, r.special_times.rahu_kalam.start_jd_utc)
            /\ FracLeq(r.special_times.rahu_kalam.end_jd_utc, r.sunset_jd_utc)

\* the four components of a result
Components(r) == <<r.tithi, r.nakshatra, r.yoga, r.karana>>

\* C19: in a result, the end time of each of the four components is None
\* exactly when the component has no event, and is otherwise the end time
\* of the first event of its list
EndIsFirstEvent ==
    Returned =>
        \A j \in 1..4 :
            LET comp == Components(panchanga_call.result)[j]
            IN  /\ comp.end_jd_utc = None <=> comp.events = <<>>
                /\ comp.events # <<>> =>
                       comp.end_jd_utc = Some(EventTime(comp.events[1]))

\* witness of C19: a result with no Nakshatra event, a Tithi event and four
\* Karana events
EndIsFirstEventWitness ==
    /\ Returned
    /\ panchanga_call.result.nakshatra.events = <<>>
    /\ panchanga_call.result.tithi.events # <<>>
    /\ Len(panchanga_call.result.karana.events) >= 4

\* every event of the list has its index in 0..(max - 1)
EventIndicesBelow(evts, max) ==
    \A j \in 1..Len(evts) : EventIndex(evts[j]) \in 0..(max - 1)

\* C20: whatever the Sun's and the Moon's longitudes at sunrise, the result
\* has a Tithi index in 0..29, a Nakshatra index in 0..26 with a pada in
\* 1..4, a Yoga index in 0..26 and a Karana index in 0..59, and the indices
\* of the events of each component are in the range of the component
IndicesInRange ==
    Returned =>
        LET r == panchanga_call.result
        IN  /\ r.tithi.index \in 0..29
            /\ r.nakshatra.index \in 0..26
            /\ r.nakshatra.pada \in 1..4
            /\ r.yoga.index \in 0..26
            /\ r.karana.index \in 0..59
            /\ EventIndicesBelow(r.tithi.events, 30)
            /\ EventIndicesBelow(r.nakshatra.events, 27)
            /\ EventIndicesBelow(r.yoga.events, 27)
            /\ EventIndicesBelow(r.karana.events, 60)

\* witness of C20: a result for a sunrise in the last Tithi and the last
\* pada of the last Nakshatra, with events in every component
IndicesInRangeWitness ==
    /\ Returned
    /\ panchanga_call.result.tithi.index = 29
    /\ panchanga_call.result.nakshatra.index = 26
    /\ panchanga_call.result.nakshatra.pada = 4
    /\ \A j \in 1..4 : Components(panchanga_call.result)[j].events # <<>>

----------------------------------------------------------------------------
(* logic/dashas.py: calculate_vimshottari *)

MaxTotalYears == 120

DASHA_LORDS ==
    <<"Ketu", "Venus", "Sun", "Moon", "Mars", "Rahu", "Jupiter", "Saturn", "Mercury">>

DASHA_YEARS ==
    [Ketu |-> 7, Venus |-> 20, Sun |-> 6, Moon |-> 10, Mars |-> 7, Rahu |-> 18,
     Jupiter |-> 16, Saturn |-> 19, Mercury |-> 17]

NAKSHATRA_NAMES ==
    <<"Ashwini", "Bharani", "Krittika", "Rohini", "Mrigashira", "Ardra",
      "Punarvasu", "Pushya", "Ashlesha", "Magha", "Purva Phalguni",
      "Uttara Phalguni", "Hasta", "Chitra", "Swati", "Vishakha", "Anuradha",
      "Jyeshtha", "Mula", "Purva Ashadha", "Uttara Ashadha", "Shravana",
      "Dhanishta", "Shatabhisha", "Purva Bhadrapada", "Uttara Bhadrapada",
      "Revati">>

NAKSHATRA_EXTENT == FULL \div 27

\* logic/nakshatras.py: (index, name, pada) of a longitude
get_nakshatra_scalar(longitude) ==
    LET lon == longitude % FULL
        idx == lon \div NAKSHATRA_EXTENT
        pada == (((lon % NAKSHATRA_EXTENT) * 4) \div NAKSHATRA_EXTENT) + 1
    IN  <<idx, NAKSHATRA_NAMES[idx + 1], pada>>

DashaPeriod(lord, start_date, end_date, duration_years) ==
    [lord |-> lord, start_date |-> start_date, end_date |-> end_date,
     duration_years |-> duration_years]

\* 365.25 days
DaysPerYear == Frac(1461, 4)

\* dates are counted in days from the birth date: date + timedelta(days)
plus_days(date, days) == FracAdd(date, days)

next_lord_index_skips(seq_idx) == (seq_idx + 2) % 9

next_lord_index(seq_idx) == (seq_idx + 1) % 9

DashaCall(moon_longitude, birth_date, total_years) ==
    [pc |-> "entry", moon_longitude |-> moon_longitude, birth_date |-> birth_date,
     total_years |-> total_years, dashas |-> <<>>, current_date |-> birth_date,
     years_generated |-> Whole(0), curr_lord_seq_idx |-> 0]

DashaOnly == UNCHANGED <<args, locals, history, calls, karana_call, new_moon_call,
                         masa_call, panchanga_call, ingress_call>>

\* the balance of the first period
DashaFirst ==
    /\ dasha_call.pc = "entry"
    /\ LET c == dasha_call
           nak_idx == get_nakshatra_scalar(c.moon_longitude)[1]
           lord_idx == nak_idx % 9
           current_lord == DASHA_LORDS[lord_idx + 1]
           nak_start_lon == nak_idx * NAKSHATRA_EXTENT
           traversed == c.moon_longitude - nak_start_lon
           fraction_remaining == FracSub(Whole(1), Frac(traversed, NAKSHATRA_EXTENT))
           full_duration == DASHA_YEARS[current_lord]
           balance_years == FracMul(Whole(full_duration), fraction_remaining)
           days_remaining == FracMul(balance_years, DaysPerYear)
           end_date == plus_days(c.birth_date, days_remaining)
       IN  dasha_call' =
               [c EXCEPT !.pc = "while",
                         !.dashas = <<DashaPeriod(current_lord, c.birth_date,
                                                  end_date, balance_years)>>,
                         !.current_date = end_date,
                         !.years_generated = balance_years,
                         !.curr_lord_seq_idx = lord_idx]
    /\ DashaOnly

\* one pass of the while loop: the next lord's full period
DashaNext ==
    /\ dasha_call.pc = "while"
    /\ FracLess(dasha_call.years_generated, Whole(dasha_call.total_years))
    /\ LET c == dasha_call
           seq_idx == next_lord_index(c.curr_lord_seq_idx)
           next_lord == DASHA_LORDS[seq_idx + 1]
           duration == DASHA_YEARS[next_lord]
           end_date == plus_days(c.current_date,
                                 FracMul(Whole(duration), DaysPerYear))
       IN  dasha_call' =
               [c EXCEPT !.dashas = Append(c.dashas,
                                           DashaPeriod(next_lord, c.current_date,
                                                       end_date, Whole(duration))),
                         !.current_date = end_date,
                         !.years_generated =
                             FracAdd(c.years_generated, Whole(duration)),
                         !.curr_lord_seq_idx = seq_idx]
    /\ DashaOnly

DashaReturn ==
    /\ dasha_call.pc = "while"
    /\ ~FracLess(dasha_call.years_generated, Whole(dasha_call.total_years))
    /\ dasha_call' = [dasha_call EXCEPT !.pc = "return"]
    /\ DashaOnly

calculate_vimshottari == DashaFirst \/ DashaNext \/ DashaReturn

\* inputs: Moon longitudes over the circle, one a full turn too high and one
\* below zero, and the spans asked for
DashaMoons == {Deg(10) * i : i \in 0..35} \cup {FULL - 1, Deg(370), Deg(-10)}

TotalYears == {0, 20, MaxTotalYears}

InitDasha ==
    /\ DetectorIdle
    /\ karana_call = Idle
    /\ new_moon_call = Idle
    /\ masa_call = Idle
    /\ panchanga_call = Idle
    /\ ingress_call = Idle
    /\ \E m \in DashaMoons : \E y \in TotalYears :
           dasha_call = DashaCall(m, Whole(0), y)

NextDasha == calculate_vimshottari

SpecDasha == InitDasha /\ [][NextDasha]_vars

\* the position of a lord in the cycle, from 0
LordPosition(lord) == CHOOSE i \in 0..8 : DASHA_LORDS[i + 1] = lord

\* C21: the first period belongs to the lord at position (Nakshatra index of
\* the Moon mod 9) of the nine-lord cycle, every later period to the lord
\* after its predecessor's (Ketu after Mercury), and every later period
\* starts on the date the one before it ends
LordsFollowCycle ==
    dasha_call.pc \in {"while", "return"} =>
        LET d == dasha_call.dashas
            nakshatra == ((dasha_call.moon_longitude % FULL) * 27) \div FULL
        IN  /\ Len(d) >= 1
            /\ d[1].lord = DASHA_LORDS[(nakshatra % 9) + 1]
            /\ \A j \in 2..Len(d) :
                   /\ LordPosition(d[j].lord) = (LordPosition(d[j - 1].lord) + 1) % 9
                   /\ d[j].start_date = d[j - 1].end_date

\* witness of C21: a returned sequence that goes from Mercury round to Ketu
\* and on
LordsFollowCycleWitness ==
    /\ dasha_call.pc = "return"
    /\ Len(dasha_call.dashas) >= 4
    /\ dasha_call.dashas[2].lord = "Mercury"
    /\ dasha_call.dashas[3].lord = "Ketu"

----------------------------------------------------------------------------
(* logic/transits.py: find_zodiac_ingresses *)

MaxBatch == 4

\* np.floor(np.mod(longitude, 360.0) / 30.0).astype(int)
sign_index_unwrapped(longitude) == longitude \div Deg(30)

sign_index(longitude) == (longitude % FULL) \div Deg(30)

\* bodies.index(body_name), from 0; 0 - 1 when the body is absent (ValueError)
body_index(bodies, body_name) ==
    IF \E i \in 1..Len(bodies) : bodies[i] = body_name
    THEN (CHOOSE i \in 1..Len(bodies) :
              /\ bodies[i] = body_name
              /\ \A j \in 1..(i - 1) : bodies[j] # body_name) - 1
    ELSE 0 - 1

\* np.where(np.diff(signs, prepend=signs[0]) != 0)[0], as positions from 1
change_indices_of(signs) ==
    LET changed(i) == i > 1 /\ signs[i] # signs[i - 1]
    IN  SelectSeq([i \in 1..Len(signs) |-> i], changed)

IngressCall(batch, body_name) ==
    [pc |-> "entry", batch |-> batch, body_name |-> body_name, signs |-> <<>>,
     change_indices |-> <<>>, i |-> 0, events |-> <<>>]

IngressOnly == UNCHANGED <<args, locals, history, calls, karana_call, new_moon_call,
                           masa_call, panchanga_call, dasha_call>>

\* the body is not in the batch
IngressAbsent ==
    /\ ingress_call.pc = "entry"
    /\ body_index(ingress_call.batch.bodies, ingress_call.body_name) < 0
    /\ ingress_call' = [ingress_call EXCEPT !.pc = "return", !.events = <<>>]
    /\ IngressOnly

\* the signs of the body's longitudes and the places where they change
IngressScan ==
    /\ ingress_call.pc = "entry"
    /\ body_index(ingress_call.batch.bodies, ingress_call.body_name) >= 0
    /\ LET c == ingress_call
           body_idx == body_index(c.batch.bodies, c.body_name)
           longitudes == [t \in 1..Len(c.batch.jds) |->
                              c.batch.raw_results[t][body_idx + 1]]
           signs == [t \in 1..Len(longitudes) |-> sign_index(longitudes[t])]
       IN  ingress_call' = [c EXCEPT !.pc = "for", !.signs = signs,
                                     !.change_indices = change_indices_of(signs),
                                     !.i = 1, !.events = <<>>]
    /\ IngressOnly

\* one pass of the loop over change_indices
IngressFor ==
    /\ ingress_call.pc = "for"
    /\ ingress_call.i <= Len(ingress_call.change_indices)
    /\ LET c == ingress_call
           idx == c.change_indices[c.i]
           jd_of == c.batch.jds[idx]
           to_sign == c.signs[idx]
           from_sign == c.signs[idx - 1]
       IN  ingress_call' = [c EXCEPT !.events = Append(c.events,
                                                       <<jd_of, from_sign, to_sign>>),
                                     !.i = c.i + 1]
    /\ IngressOnly

IngressReturn ==
    /\ ingress_call.pc = "for"
    /\ ingress_call.i > Len(ingress_call.change_indices)
    /\ ingress_call' = [ingress_call EXCEPT !.pc = "return"]
    /\ IngressOnly

find_zodiac_ingresses == IngressAbsent \/ IngressScan \/ IngressFor \/ IngressReturn

\* inputs: batches of one to MaxBatch times, increasing; the Sun stays in
\* one sign and the Moon takes longitudes on both sides of sign boundaries,
\* below zero and above a full turn
BatchLongitudes == {Deg(-10), 0, Deg(29), Deg(30), Deg(100), Deg(359), Deg(370)}

BatchBodies == {<<"Sun", "Moon">>, <<"Moon", "Sun">>, <<"Sun">>}

RECURSIVE BodyTracks(_)
BodyTracks(n) ==
    IF n = 0 THEN {<<>>}
    ELSE {Append(q, x) : q \in BodyTracks(n - 1), x \in BatchLongitudes}

\* the batch of the given bodies in which the Moon follows the track
BatchOf(bodies, track) ==
    [bodies |-> bodies,
     jds |-> [t \in 1..Len(track) |-> 2460310 + 2 * t],
     raw_results |->
         [t \in 1..Len(track) |->
              [b \in 1..Len(bodies) |->
                   IF bodies[b] = "Moon" THEN track[t] ELSE Deg(280) + t]]]

InitIngress ==
    /\ DetectorIdle
    /\ karana_call = Idle
    /\ new_moon_call = Idle
    /\ masa_call = Idle
    /\ panchanga_call = Idle
    /\ dasha_call = Idle
    /\ \E n \in 1..MaxBatch : \E track \in BodyTracks(n) :
           \E bodies \in BatchBodies : \E name \in {"Moon", "Sun"} :
               ingress_call = IngressCall(BatchOf(bodies, track), name)

NextIngress == find_zodiac_ingresses

SpecIngress == InitIngress /\ [][NextIngress]_vars

\* the longitude of the body at position t of the batch
LongitudeAt(t) ==
    LET b == ingress_call.batch
        at == CHOOSE i \in 1..Len(b.bodies) : b.bodies[i] = ingress_call.body_name
    IN  b.raw_results[t][at]

SignAt(t) == ((LongitudeAt(t) % FULL) * 12) \div FULL

RECURSIVE ExpectedIngresses(_)
ExpectedIngresses(t) ==
    IF t <= 1 THEN <<>>
    ELSE ExpectedIngresses(t - 1) \o
         (IF SignAt(t) # SignAt(t - 1)
          THEN <<<<ingress_call.batch.jds[t], SignAt(t - 1), SignAt(t)>>>>
          ELSE <<>>)

BodyPresent ==
    \E i \in 1..Len(ingress_call.batch.bodies) :
        ingress_call.batch.bodies[i] = ingress_call.body_name

\* C22: the returned list has, in increasing time order, one event for each
\* position after the first whose sign differs from the sign before it,
\* with the time of that position, the sign before and the sign at it; the
\* two signs of an event differ and are in 0..11; a body that is not in the
\* batch gives the empty list
IngressPerSignChange ==
    ingress_call.pc = "return" =>
        LET e == ingress_call.events
        IN  /\ BodyPresent => e = ExpectedIngresses(Len(ingress_call.batch.jds))
            /\ ~BodyPresent => e = <<>>
            /\ \A j \in 1..Len(e) :
                   /\ e[j][2] # e[j][3]
                   /\ e[j][2] \in 0..11
                   /\ e[j][3] \in 0..11
            /\ \A j \in 2..Len(e) : e[j - 1][1] < e[j][1]

\* witness of C22: a returned list of two events or more, one of them from
\* the last sign to the first
IngressPerSignChangeWitness ==
    /\ ingress_call.pc = "return"
    /\ Len(ingress_call.events) >= 2
    /\ \E j \in 1..Len(ingress_call.events) :
           ingress_call.events[j][2] = 11 /\ ingress_call.events[j][3] = 0

----------------------------------------------------------------------------
(* The detector once more: interpolation, termination, tracking, noise *)

\* the first value above the phase p that is the boundary ending period
\* index (a multiple of a full turn above (index + 1) * step_deg)
BoundaryAbove(p, index) == p + ((((index + 1) * step_deg) - p - 1) % FULL) + 1

\* the crossing time of the boundary b on the straight line between sample
\* j - 1 and sample j
OnGapLine(j, b) ==
    FracAdd(SampleTime(j - 1),
            FracMul(Frac(b - phase_series[j - 1],
                         phase_series[j] - phase_series[j - 1]),
                    FracSub(SampleTime(j), SampleTime(j - 1))))

\* C23: every event, the second and later ones of a gap included, has the
\* time at which the straight line between the gap's two samples reaches
\* its boundary, the boundary being the first one for the event's index
\* above the phase of the gap's first sample
EventsOnGapLine ==
    \A n \in 1..Len(events) :
        LET j == event_gap[n]
            b == BoundaryAbove(phase_series[j - 1], EventIndex(events[n]))
        IN  /\ EventBoundary(events[n]) = b % FULL
            /\ EventTime(events[n]) = OnGapLine(j, b)

\* witness of C23: two events of one gap at different times
EventsOnGapLineWitness ==
    \E n \in 2..Len(events) :
        /\ event_gap[n] = event_gap[n - 1]
        /\ EventTime(events[n]) # EventTime(events[n - 1])
        /\ pc = "return"

----------------------------------------------------------------------------
(* Degenerate Tithi intervals in collect_karana_events_from_tithis *)

\* the loop is about to handle the interval j of the chain
AtInterval(j) == karana_call.pc = "for" /\ karana_call.i = j

\* C24: the step over a Tithi interval whose end is not after its start
\* adds no Karana event and moves the chain on to that Tithi event's time
\* with Tithi index (event index + 1) mod 30; and the step after the last
\* Tithi event adds nothing when the chain has reached the next sunrise
DegenerateSkipped ==
    [][\A j \in 1..ChainLength :
           (AtInterval(j) /\ ~NonDegenerate(j)) =>
               /\ karana_call'.events = karana_call.events
               /\ j < ChainLength =>
                      /\ karana_call'.curr_start = EventTime(karana_call.tithi_events[j])
                      /\ karana_call'.curr_idx
                             = (EventIndex(karana_call.tithi_events[j]) + 1) % 30
                      /\ AtInterval(j + 1)'
               /\ j = ChainLength => karana_call'.pc = "return"]_vars

\* witness of C24: a call returned four Karana events for three Tithi
\* events, the second at the instant of the first and the third at the
\* next sunrise
DegenerateSkippedWitness ==
    /\ karana_call.pc = "return"
    /\ Len(karana_call.tithi_events) = 3
    /\ NonDegenerate(1)
    /\ EventTime(karana_call.tithi_events[2]) = EventTime(karana_call.tithi_events[1])
    /\ EventTime(karana_call.tithi_events[3]) = karana_call.next_sunrise_jd
    /\ Len(karana_call.events) = 4
    /\ EventIndex(karana_call.events[3])
           = (2 * ((EventIndex(karana_call.tithi_events[2]) + 1) % 30)) % 60

----------------------------------------------------------------------------
(* Termination of _collect_phase_events *)

\* what is left to do: the samples not yet read (with the entry and the
\* return), then the place in the loop body, then the phase still to rise
\* within the gap
Rank ==
    <<IF pc = "entry" THEN Len(samples) + 2
      ELSE IF pc = "return" THEN 0 ELSE (Len(samples) + 2) - k,
      IF pc = "for" THEN 1 ELSE 0,
      IF pc = "while" /\ prev_phase < curr_phase THEN curr_phase - prev_phase ELSE 0>>

\* the lexicographic order of ranks
RankLess(a, b) ==
    \/ a[1] < b[1]
    \/ a[1] = b[1] /\ a[2] < b[2]
    \/ a[1] = b[1] /\ a[2] = b[2] /\ a[3] < b[3]

\* the number of events of the gap ending at sample j is bounded by the
\* gap's phase rise divided by step_deg, plus one
GapEventsBounded(j) ==
    LET n == Cardinality(EventsOfGap(j))
    IN  /\ phase_series[j] <= phase_series[j - 1] => n = 0
        /\ n > 0 => (n - 1) * step_deg < phase_series[j] - phase_series[j - 1]

\* C25: every step of the call lowers its rank, which is never negative, so
\* the call returns after finitely many steps; a step that emits an event
\* moves prev_phase up, by more than zero and at most 360 degrees and not
\* beyond curr_phase, and by a whole step_deg after the first event of the
\* gap; the events of a gap are bounded by the gap's rise divided by
\* step_deg, plus one
DetectorTerminates ==
    /\ [][/\ RankLess(Rank', Rank)
          /\ events' # events =>
                 /\ prev_phase < prev_phase'
                 /\ prev_phase' <= prev_phase + FULL
                 /\ prev_phase' <= curr_phase
                 /\ EventsOfGap(k) # {} => prev_phase' = prev_phase + step_deg
                 /\ Len(events') = Len(events) + 1]_vars
    /\ [](/\ Rank[1] >= 0 /\ Rank[3] >= 0
          /\ \A j \in 2..Len(phase_series) : GapEventsBounded(j))

\* witness of C25: a call returned after a gap with three events in it
DetectorTerminatesWitness ==
    /\ pc = "return"
    /\ \E j \in 2..Len(samples) : Cardinality(EventsOfGap(j)) >= 3

----------------------------------------------------------------------------
(* The tracked index against the index of the sampled phase *)

\* the raw phase moves forward by less than 180 degrees from sample j - 1
\* to sample j
ForwardStep(j) == (RawPhase(j) - RawPhase(j - 1)) % FULL < HALF

\* C26: with the initial index that of the first sample's phase and the
\* sampled phase moving forward by less than 180 degrees between
\* consecutive samples, the tracked index after each sample is the index of
\* that sample's phase
TrackedIndexAgrees ==
    \A j \in 1..Len(index_series) :
        (/\ initial_index = IndexOf(RawPhase(1), step_deg, max_index)
         /\ \A i \in 2..j : ForwardStep(i))
            => index_series[j] = IndexOf(RawPhase(j), step_deg, max_index)

----------------------------------------------------------------------------
(* The Karana at sunrise and the Karana events of the day *)

\* C27: in a result with end times and a non-empty Karana event list, the
\* first Karana event has the Karana index computed at sunrise
FirstKaranaIsSunriseKarana ==
    (/\ Returned
     /\ panchanga_call.config.compute_end_times
     /\ panchanga_call.result.karana.events # <<>>)
        => EventIndex(panchanga_call.result.karana.events[1])
               = panchanga_call.result.karana.index

\* the call cannot sample its day: fewer than two samples per day, or a
\* next sunrise that is not after the sunrise
InvalidForSampling ==
    \/ panchanga_call.config.samples_per_day < 2
    \/ panchanga_call.day.next_day_rise <= panchanga_call.day.sunrise

\* C28: a result with end times for a call that cannot sample its day has
\* no samples, and each of its four components, Karana included, has no
\* event and no end time
NoSamplesNoEvents ==
    (/\ Returned
     /\ panchanga_call.config.compute_end_times
     /\ InvalidForSampling)
        => /\ panchanga_call.result.samples = Some(<<>>)
           /\ \A j \in 1..4 :
                  LET comp == Components(panchanga_call.result)[j]
                  IN  comp.events = <<>> /\ comp.end_jd_utc = None

----------------------------------------------------------------------------
(* The interpolation division and noisy series *)

\* the while loop is about to compute ratio: the candidate boundary is at
\* or below curr_phase
RatioComputed ==
    /\ pc = "while"
    /\ crosses(candidate_boundary(tracking_index, step_deg, prev_phase), curr_phase)

\* C29: whenever ratio is computed its denominator curr_phase - prev_phase
\* is strictly positive; the while loop is never entered for a sample whose
\* phase equals the previous one, and once prev_phase has been advanced to
\* a boundary equal to curr_phase no ratio is computed any more in the gap
DenominatorPositive ==
    /\ RatioComputed => curr_phase - prev_phase > 0
    /\ (pc = "while" /\ EventsOfGap(k) = {}) => curr_phase # prev_phase
    /\ (pc = "while" /\ curr_phase = prev_phase) => ~RatioComputed

\* witness of C29: after a sample with the phase of the one before it, the
\* events of the next gap have advanced prev_phase to a boundary that is
\* exactly curr_phase
DenominatorPositiveWitness ==
    /\ pc = "while"
    /\ curr_phase = prev_phase
    /\ EventsOfGap(k) # {}
    /\ k = 3
    /\ phase_series[2] = phase_series[1]

\* noisy series: the Moon moves 10 degrees back, 10 or 30 degrees forward
NoisySteps == {Deg(-10), Deg(10), Deg(30)}

NoisySeries == UNION {Series(n, {1}, NoisySteps) : n \in 0..MaxNoisySamples}

InitNoisy ==
    \E w \in Wrappers : \E ss \in NoisySeries :
        FirstCallOf(w, ss,
                    IF ss = <<>> THEN 0
                    ELSE IndexOf(get_phase(w.mode, ss[1].sun, ss[1].moon), w.step, w.max))

SpecNoisy == InitNoisy /\ [][Next]_vars

\* the highest unwrapped phase among the samples 1..j
MaxPhase(j) ==
    CHOOSE p \in {phase_series[i] : i \in 1..j} :
        \A i \in 1..j : phase_series[i] <= p

\* the events emitted up to and including the gap that ends at sample j
EventsUpTo(j) == {n \in 1..Len(events) : event_gap[n] <= j}

\* C30: a gap across which the unwrapped phase falls has no event and
\* leaves the tracked index as it was; up to each sample the events are, one
\* each and in order, the boundaries between the first phase and the
\* highest phase reached, so a boundary crossed again after a dip is not
\* reported again, and the tracked index is the initial index plus the
\* number of those boundaries: never behind its earlier value, never ahead
\* of the boundaries crossed
NoiseIgnored ==
    /\ \A j \in 2..Len(index_series) :
           /\ phase_series[j] < phase_series[j - 1] =>
                  EventsOfGap(j) = {} /\ index_series[j] = index_series[j - 1]
           /\ Cardinality(EventsUpTo(j)) =
                  Cardinality(BoundariesIn(phase_series[1], MaxPhase(j), step_deg))
           /\ index_series[j] = (initial_index + Cardinality(EventsUpTo(j))) % max_index
    /\ \A n \in 1..Len(events) :
           EventBoundary(events[n])
               = (((phase_series[1] \div step_deg) + n) * step_deg) % FULL

\* witness of C30: a boundary was reported, the phase fell below it and
\* rose across it again without an event
NoiseIgnoredWitness ==
    /\ pc = "return"
    /\ \E j \in 3..(Len(phase_series) - 1) :
           /\ EventsOfGap(j - 1) # {}
           /\ phase_series[j] < phase_series[j - 1]
           /\ phase_series[j] < phase_series[j + 1]
           /\ phase_series[j + 1] <= phase_series[j - 1]
           /\ BoundariesIn(phase_series[j], phase_series[j + 1], step_deg) # {}
           /\ EventsOfGap(j + 1) = {}

====
